---- MODULE Spec2Model ----
(***************************************************************************)
(* A model of benchopt/util.py: the shell runner, the install entry        *)
(* points and their policy gate, the availability probes, virtual-env      *)
(* creation, benchmark validation, solver discovery and the safe_import    *)
(* guard.  Every handler is one atomic action; what the operating system,  *)
(* the file system and the spawned shell decide is drawn with \E.          *)
(***************************************************************************)
EXTENDS Integers, Sequences, FiniteSets, TLC

VARIABLES
    environ,        \* os.environ['BENCHO_ALLOW_INSTALL'] as it is now
    ALLOW_INSTALL,  \* the module constant read from environ at import
    venv_dirs,      \* names n whose directory VENV_DIR/n exists on disk
    tmp_files,      \* transient script files still on disk
    n_ensure,       \* per name: create_venv calls with recreate=False
    n_recreate,     \* per name: create_venv calls with recreate=True
    n_venv,         \* per name: venv.create invocations
    n_boot,         \* per name: baseline bootstrap installs started
    boot_failed,    \* names whose latest bootstrap raised
    guard,          \* the safe_import object
    last            \* the latest call: its arguments, what the OS did, its result

vars == <<environ, ALLOW_INSTALL, venv_dirs, tmp_files, n_ensure, n_recreate,
          n_venv, n_boot, boot_failed, guard, last>>

----------------------------------------------------------------------------
\* Bounds of the model.

\* longest package tuple passed to pip_install_in_env
MaxPkgs == 2
\* largest exit code the spawned shell returns
MaxExit == 2
\* most transient files held by live tracebacks at once
MaxHeld == 1
\* most create_venv calls in one run
MaxCalls == 3
\* longest solver list / solver directory
MaxSolvers == 2
\* longest list of requested or known benchmark names
MaxNames == 2

----------------------------------------------------------------------------
\* Python values.

\* env_name=None
None == "None"

\* The Python object False, a str object, and a missing os.environ key.
PyFalse == [t |-> "bool", s |-> "False"]

Str(s) == [t |-> "str", s |-> s]

Absent == [t |-> "absent", s |-> ""]

\* Python truthiness: bool(False) is False, bool(str) is len(str) > 0.
bool(v) == IF v.t = "bool" THEN v.s = "True" ELSE v.s # ""

\* os.environ.get(key, default)
environ_get(env, default) == IF env.t = "absent" THEN default ELSE env

\* What BENCHO_ALLOW_INSTALL may hold.
EnvSettings == {Absent, Str(""), Str("False"), Str("True")}

EnvNames == {"e1", "e2"}

Packages == {"numpy", "cython"}

InstallScripts == {"install_a.sh", "install_b.sh"}

ImportNames == {"sklearn"}

CmdNames == {"julia"}

\* All sequences over S of length at most n.
SeqUpTo(S, n) == UNION {[1..k -> S] : k \in 0..n}

Range(s) == {s[i] : i \in 1..Len(s)}

----------------------------------------------------------------------------
\* Module constants and command templates.

VENV_DIR == "./.venv/"

\* f"{VENV_DIR}/{env_name}"
env_dir(env_name) == <<VENV_DIR, "/", env_name>>

\* A script text (a str).  source is the activation prefix, empty when the
\* script runs in the ambient context.
Script(source, cmd, args) ==
    [type |-> "str", source |-> source, cmd |-> cmd, args |-> args]

PIP_INSTALL_CMD(packages) == Script(<<>>, "pip install -qq", packages)

BASH_INSTALL_CMD(install_script, env) ==
    Script(<<>>, "bash install_scripts/", <<install_script, env>>)

CHECK_PACKAGE_INSTALLED_CMD(import_name) ==
    Script(<<>>, "python -c import", <<import_name>>)

CHECK_CMD_INSTALLED_CMD(cmd_name) == Script(<<>>, "type", <<cmd_name>>)

\* An argument of _run_in_bash that is not a str.
BytesScript == [type |-> "bytes", source |-> <<>>, cmd |-> "exit", args |-> <<>>]

----------------------------------------------------------------------------
\* What the operating system does with one _run_in_bash call.

\* os.system's wait status: the exit code in the high byte, the killing
\* signal in the low byte.
WaitStatus(exit_code, signal) == (exit_code * 256 + signal) % 65536

Statuses ==
    {WaitStatus(c, 0) : c \in 0..MaxExit} \cup {WaitStatus(0, 9)}

\* tmp: NamedTemporaryFile succeeded; write: open/write succeeded;
\* status: what os.system returns when it is reached.
Outcomes ==
    {[tmp |-> FALSE, write |-> FALSE, status |-> 0],
     [tmp |-> TRUE, write |-> FALSE, status |-> 0]}
    \cup {[tmp |-> TRUE, write |-> TRUE, status |-> s] : s \in Statuses}

\* The result of a call: the exception raised ("none" when it returns), the
\* value returned, the names the error message carries, the transient files
\* it created, those still on disk when it exits (the raising frame, and the
\* NamedTemporaryFile in it, lives on in the traceback), and the scripts it
\* handed to bash.
Result(exc, value, msg, created, held, spawned) ==
    [exc |-> exc, value |-> value, msg |-> msg, created |-> created,
     held |-> held, spawned |-> spawned]

\* _run_in_bash(script)
run_in_bash(script, o) ==
    IF ~o.tmp THEN Result("OSError", 0, <<>>, 0, 0, <<>>)
    ELSE IF script.type # "str" THEN Result("TypeError", 0, <<>>, 1, 1, <<>>)
    ELSE IF ~o.write THEN Result("OSError", 0, <<>>, 1, 1, <<>>)
    ELSE Result("none", o.status, <<>>, 1, 0, <<script>>)

\* _run_bash_in_env(script, env_name)
run_bash_in_env(script, env_name, o) ==
    IF env_name # None
    THEN run_in_bash([script EXCEPT !.source = env_dir(env_name)], o)
    ELSE run_in_bash(script, o)

----------------------------------------------------------------------------
\* PackageInstaller.

\* the gate written as a comparison with False
gate_refuses_cmp(env_name) == env_name = None /\ ALLOW_INSTALL = PyFalse

\* The policy gate of both entry points.
gate_refuses(env_name) == env_name = None /\ ~bool(ALLOW_INSTALL)

\* the exit status read through its exit-code byte only
install_failed_exitbyte(exit_code) == exit_code \div 256 # 0

\* if exit_code != 0
install_failed(exit_code) == exit_code # 0

\* pip_install_in_env(*packages, env_name)
pip_install_in_env(packages, env_name, o) ==
    IF gate_refuses(env_name)
    THEN Result("ValueError", 0, <<>>, 0, 0, <<>>)
    ELSE LET r == run_bash_in_env(PIP_INSTALL_CMD(packages), env_name, o)
         IN  IF r.exc = "none" /\ install_failed(r.value)
             THEN [r EXCEPT !.exc = "RuntimeError", !.msg = packages]
             ELSE r

\* bash_install_in_env(script, env_name)
bash_install_in_env(script, env_name, o) ==
    IF gate_refuses(env_name)
    THEN Result("ValueError", 0, <<>>, 0, 0, <<>>)
    ELSE LET env == IF env_name # None THEN "$VIRTUAL_ENV" ELSE "$HOME/.local/"
             r == run_bash_in_env(BASH_INSTALL_CMD(script, env), env_name, o)
         IN  IF r.exc = "none" /\ install_failed(r.value)
             THEN [r EXCEPT !.exc = "RuntimeError", !.msg = <<script>>]
             ELSE r

\* check_import_solver(import_name, env_name): the value is 1 for True
check_import_solver(import_name, env_name, o) ==
    LET r == run_bash_in_env(CHECK_PACKAGE_INSTALLED_CMD(import_name), env_name, o)
    IN  [r EXCEPT !.value = IF r.exc = "none" /\ r.value = 0 THEN 1 ELSE 0]

\* check_cmd_solver(cmd_name, env_name)
check_cmd_solver(cmd_name, env_name, o) ==
    LET r == run_bash_in_env(CHECK_CMD_INSTALLED_CMD(cmd_name), env_name, o)
    IN  [r EXCEPT !.value = IF r.exc = "none" /\ r.value = 0 THEN 1 ELSE 0]

----------------------------------------------------------------------------
\* The latest call.

Call(op, env, target, o, r) ==
    [op |-> op, env |-> env, target |-> target, o |-> o, r |-> r]

NoCall == [op |-> "none"]

\* No call is in progress: the caller is free to make the next one.
Idle == last.op = "none"

InstallOps == {"pip_install_in_env", "bash_install_in_env"}

\* The state the install actions leave alone.
UnchangedVenv ==
    UNCHANGED <<venv_dirs, n_ensure, n_recreate, n_venv, n_boot, boot_failed>>

\* A call that went through the shell runner: its transient file stays on
\* disk exactly when the call raised with the file created.
Shell(op, env, target, o, r) ==
    /\ last.op = "none"
    /\ tmp_files + r.held <= MaxHeld
    /\ tmp_files' = tmp_files + r.held
    /\ last' = Call(op, env, target, o, r)

RunInBash(script, o) ==
    /\ Shell("_run_in_bash", None, <<script>>, o, run_in_bash(script, o))
    /\ UNCHANGED <<environ, ALLOW_INSTALL, guard>>
    /\ UnchangedVenv

PipInstall(packages, env_name, o) ==
    /\ Shell("pip_install_in_env", env_name, packages, o,
             pip_install_in_env(packages, env_name, o))
    /\ UNCHANGED <<environ, ALLOW_INSTALL, guard>>
    /\ UnchangedVenv

BashInstall(script, env_name, o) ==
    /\ Shell("bash_install_in_env", env_name, <<script>>, o,
             bash_install_in_env(script, env_name, o))
    /\ UNCHANGED <<environ, ALLOW_INSTALL, guard>>
    /\ UnchangedVenv

CheckImport(import_name, env_name, o) ==
    /\ Shell("check_import_solver", env_name, <<import_name>>, o,
             check_import_solver(import_name, env_name, o))
    /\ UNCHANGED <<environ, ALLOW_INSTALL, guard>>
    /\ UnchangedVenv

CheckCmd(cmd_name, env_name, o) ==
    /\ Shell("check_cmd_solver", env_name, <<cmd_name>>, o,
             check_cmd_solver(cmd_name, env_name, o))
    /\ UNCHANGED <<environ, ALLOW_INSTALL, guard>>
    /\ UnchangedVenv

\* The caller has looked at the result of the latest call and goes on.
Return ==
    /\ last.op # "none"
    /\ last' = NoCall
    /\ UNCHANGED <<environ, ALLOW_INSTALL, tmp_files, guard>>
    /\ UnchangedVenv

\* The process changes BENCHO_ALLOW_INSTALL after the module was imported.
SetEnviron(v) ==
    /\ last.op = "none"
    /\ v # environ
    /\ environ' = v
    /\ UNCHANGED <<ALLOW_INSTALL, tmp_files, guard, last>>
    /\ UnchangedVenv

\* The caller's handler ends and drops the exception: the traceback frees the
\* raising frame, the NamedTemporaryFile is finalized and its file removed.
ReleaseTraceback ==
    /\ last.op = "none"
    /\ tmp_files > 0
    /\ tmp_files' = 0
    /\ UNCHANGED <<environ, ALLOW_INSTALL, guard, last>>
    /\ UnchangedVenv

----------------------------------------------------------------------------
\* After import of the module: ALLOW_INSTALL is read once; environments of
\* earlier runs may be on disk.

NewGuard == [state |-> "none", failed_import |-> FALSE, entered |-> FALSE,
             enter_error |-> FALSE, raised |-> "None", propagated |-> "None"]

\* The state after import with BENCHO_ALLOW_INSTALL drawn from settings and
\* the environments on disk drawn from dirs.
Start(settings, dirs) ==
    /\ environ \in settings
    /\ ALLOW_INSTALL = environ_get(environ, PyFalse)
    /\ venv_dirs \in dirs
    /\ tmp_files = 0
    /\ n_ensure = [n \in EnvNames |-> 0]
    /\ n_recreate = [n \in EnvNames |-> 0]
    /\ n_venv = [n \in EnvNames |-> 0]
    /\ n_boot = [n \in EnvNames |-> 0]
    /\ boot_failed = {}
    /\ guard = NewGuard
    /\ last = NoCall

\* The installers and the registry never look at the environments on disk:
\* their runs start with every environment made.
InitInstall == Start(EnvSettings, {EnvNames})

\* create_venv passes an environment name: the gate never looks at the
\* flag, and the runs start with the variable missing.
InitVenv == Start({Absent}, SUBSET EnvNames)

EnvArgs == EnvNames \cup {None}

NextInstall ==
    \/ Idle /\ \E s \in {PIP_INSTALL_CMD(<<"numpy">>), BytesScript}, o \in Outcomes :
          RunInBash(s, o)
    \/ Idle /\ \E p \in SeqUpTo(Packages, MaxPkgs), e \in EnvArgs, o \in Outcomes :
          PipInstall(p, e, o)
    \/ Idle /\ \E s \in InstallScripts, e \in EnvArgs, o \in Outcomes :
          BashInstall(s, e, o)
    \/ Idle /\ \E i \in ImportNames, e \in EnvArgs, o \in Outcomes : CheckImport(i, e, o)
    \/ Idle /\ \E c \in CmdNames, e \in EnvArgs, o \in Outcomes : CheckCmd(c, e, o)
    \/ Idle /\ \E v \in EnvSettings : SetEnviron(v)
    \/ ReleaseTraceback
    \/ Return

SpecInstall == InitInstall /\ [][NextInstall]_vars

----------------------------------------------------------------------------
\* EnvironmentManager.

\* What venv.create(env_dir, with_pip=True) does: it builds the environment,
\* or raises before the directory is made, or raises with the directory made
\* (ensurepip failing in it).
VenvOutcomes == {"ok", "raise_nodir", "raise_dir"}

\* The baseline toolset of a new environment.
Baseline == <<"numpy", "cython", ".">>

\* What one create_venv call does: whether it went into the creation branch,
\* whether venv.create and the bootstrap ran, the directories afterwards and
\* the result.
Ensure(entered, venv, boot, dirs, r) ==
    [entered |-> entered, venv |-> venv, boot |-> boot, dirs |-> dirs, r |-> r]

\* venv.create and the bootstrap install that follows it
create_and_bootstrap(env_name, v, o) ==
    IF v = "ok"
    THEN Ensure(TRUE, 1, 1, venv_dirs \cup {env_name},
                pip_install_in_env(Baseline, env_name, o))
    ELSE Ensure(TRUE, 1, 0,
                IF v = "raise_dir" THEN venv_dirs \cup {env_name} ELSE venv_dirs,
                Result("OSError", 0, <<>>, 0, 0, <<>>))

\* create_venv with the existence test dropped
create_venv_always(env_name, recreate, v, o) ==
    create_and_bootstrap(env_name, v, o)

\* create_venv removing the directory again when the bootstrap raises
create_venv_rollback(env_name, recreate, v, o) ==
    IF env_name \notin venv_dirs \/ recreate
    THEN LET e == create_and_bootstrap(env_name, v, o)
         IN  IF e.boot = 1 /\ e.r.exc # "none"
             THEN [e EXCEPT !.dirs = venv_dirs \ {env_name}]
             ELSE e
    ELSE Ensure(FALSE, 0, 0, venv_dirs, Result("none", 0, <<>>, 0, 0, <<>>))

\* create_venv(env_name, recreate)
create_venv(env_name, recreate, v, o) ==
    IF env_name \notin venv_dirs \/ recreate
    THEN create_and_bootstrap(env_name, v, o)
    ELSE Ensure(FALSE, 0, 0, venv_dirs, Result("none", 0, <<>>, 0, 0, <<>>))

Bump(f, n, k) == [f EXCEPT ![n] = @ + k]

TotalCalls ==
    LET RECURSIVE Sum(_)
        Sum(S) == IF S = {} THEN 0
                  ELSE LET n == CHOOSE x \in S : TRUE
                       IN  n_ensure[n] + n_recreate[n] + Sum(S \ {n})
    IN  Sum(EnvNames)

CreateVenv(env_name, recreate, v, o) ==
    /\ last.op = "none"
    /\ TotalCalls < MaxCalls
    /\ \E e \in {create_venv(env_name, recreate, v, o)} :
        /\ tmp_files + e.r.held <= MaxHeld
        /\ tmp_files' = tmp_files + e.r.held
        /\ venv_dirs' = e.dirs
        /\ n_ensure' = Bump(n_ensure, env_name, IF recreate THEN 0 ELSE 1)
        /\ n_recreate' = Bump(n_recreate, env_name, IF recreate THEN 1 ELSE 0)
        /\ n_venv' = Bump(n_venv, env_name, e.venv)
        /\ n_boot' = Bump(n_boot, env_name, e.boot)
        /\ boot_failed' =
              IF e.boot = 0 THEN boot_failed
              ELSE IF e.r.exc # "none" THEN boot_failed \cup {env_name}
              ELSE boot_failed \ {env_name}
        /\ last' = [op |-> "create_venv", env |-> env_name, target |-> Baseline,
                    o |-> o, r |-> e.r, recreate |-> recreate, v |-> v,
                    entered |-> e.entered]
    /\ UNCHANGED <<environ, ALLOW_INSTALL, guard>>

NextVenv ==
    \/ Idle /\ \E n \in EnvNames, rc \in BOOLEAN, v \in VenvOutcomes, o \in Outcomes :
          CreateVenv(n, rc, v, o)
    \/ ReleaseTraceback
    \/ Return

SpecVenv == InitVenv /\ [][NextVenv]_vars


----------------------------------------------------------------------------
\* Solvers and install_solvers.

\* A Solver definition: how it installs (pip with a package tuple, or bash
\* with one install script), its install-check (an import name or a command
\* name), and whether its install-check fails whatever is installed.
Solver(name, install_cmd, target, check, check_name, broken) ==
    [name |-> name, install_cmd |-> install_cmd, target |-> target,
     check |-> check, check_name |-> check_name, broken |-> broken]

Solvers ==
    {Solver("sklearn", "pip", <<"cython">>, "import", "sklearn", FALSE),
     Solver("lightning", "pip", <<"numpy", "cython">>, "import", "sklearn", TRUE),
     Solver("julia", "bash", <<"install_a.sh">>, "cmd", "julia", TRUE)}

\* The outcomes drawn for the shell runs of install_solvers: the script
\* cannot be written, the shell exits 0, the shell exits 1.
SolverOutcomes == {o \in Outcomes : o.tmp /\ o.status \in {0, WaitStatus(1, 0)}}

\* Two results in sequence: the later one decides, the files and scripts add.
Then(r1, r2) ==
    Result(r2.exc, r2.value, r2.msg, r1.created + r2.created,
           r1.held + r2.held, r1.spawned \o r2.spawned)

\* Solver.install(env_name): installs through the entry point of the declared
\* method, then runs the install-check; a failing check raises the
\* installation failure naming the install target.
Solver_install(solver, env_name, o_install, o_check) ==
    LET r1 == IF solver.install_cmd = "pip"
              THEN pip_install_in_env(solver.target, env_name, o_install)
              ELSE bash_install_in_env(solver.target[1], env_name, o_install)
        r2 == IF solver.check = "import"
              THEN check_import_solver(solver.check_name, env_name, o_check)
              ELSE check_cmd_solver(solver.check_name, env_name, o_check)
        r == Then(r1, r2)
    IN  IF r1.exc # "none" THEN r1
        ELSE IF r2.exc # "none" \/ r2.value = 1 THEN r
        ELSE [r EXCEPT !.exc = "RuntimeError", !.msg = solver.target]

NoResult == Result("none", 0, <<>>, 0, 0, <<>>)

\* What is drawn for a shell run that never takes place.
Unused == [tmp |-> TRUE, write |-> TRUE, status |-> 0]

\* The loop of install_solvers from solver i on; at is the index of the
\* solver whose install raised, 0 when the loop ran to its end.
RECURSIVE install_from(_, _, _, _, _)
install_from(solvers, env_name, os, i, done) ==
    IF i > Len(solvers) THEN [r |-> done, at |-> 0]
    ELSE LET r == Then(done, Solver_install(solvers[i], env_name,
                                            os[2 * i - 1], os[2 * i]))
         IN  IF r.exc # "none" THEN [r |-> r, at |-> i]
             ELSE install_from(solvers, env_name, os, i + 1, r)

\* the loop stopping one solver short
install_solvers_short(solvers, env_name, os) ==
    install_from(SubSeq(solvers, 1, Len(solvers) - 1), env_name, os, 1, NoResult)

\* install_solvers(solvers, env_name)
install_solvers(solvers, env_name, os) ==
    install_from(solvers, env_name, os, 1, NoResult)

InstallSolvers(solvers, env_name, os) ==
    /\ last.op = "none"
    /\ \E x \in {install_solvers(solvers, env_name, os)} :
        /\ \A k \in DOMAIN os : k > x.r.created => os[k] = Unused
        \* the probe of a solver whose install-check always fails never exits 0
        /\ \A i \in 1..Len(solvers) :
              (solvers[i].broken /\ 2 * i <= x.r.created /\ os[2 * i].write)
                  => os[2 * i].status # 0
        /\ tmp_files + x.r.held <= MaxHeld
        /\ tmp_files' = tmp_files + x.r.held
        /\ last' = [op |-> "install_solvers", env |-> env_name,
                    solvers |-> solvers, os |-> os, r |-> x.r, at |-> x.at]
    /\ UNCHANGED <<environ, ALLOW_INSTALL, guard>>
    /\ UnchangedVenv

NextSolvers ==
    \/ Idle /\ \E ss \in SeqUpTo(Solvers, MaxSolvers), e \in EnvArgs,
          os \in [1..(2 * MaxSolvers) -> SolverOutcomes] :
          InstallSolvers(ss, e, os)
    \/ ReleaseTraceback
    \/ Return

SpecSolvers == InitInstall /\ [][NextSolvers]_vars


----------------------------------------------------------------------------
\* SolverRegistry.

BenchNames == {"lasso", "logreg", "ols"}

\* check_benchmarks reporting the first unknown name it meets
check_benchmarks_first(benchmarks, all_benchmarks) ==
    LET bad == {i \in 1..Len(benchmarks) : benchmarks[i] \notin Range(all_benchmarks)}
    IN  IF bad = {} THEN [exc |-> "none", unknown |-> {}, known |-> <<>>]
        ELSE [exc |-> "AssertionError",
              unknown |-> {benchmarks[CHOOSE i \in bad : \A j \in bad : i <= j]},
              known |-> all_benchmarks]

\* check_benchmarks(benchmarks, all_benchmarks): the assertion's message
\* carries unknown_benchmarks and all_benchmarks.
check_benchmarks(benchmarks, all_benchmarks) ==
    LET unknown_benchmarks == Range(benchmarks) \ Range(all_benchmarks)
    IN  IF Cardinality(unknown_benchmarks) = 0
        THEN [exc |-> "none", unknown |-> {}, known |-> <<>>]
        ELSE [exc |-> "AssertionError", unknown |-> unknown_benchmarks,
              known |-> all_benchmarks]

\* Names are strings of characters.
LowerOf == [c \in {"A", "B", "a", "b", "z"} |->
               IF c = "A" THEN "a" ELSE IF c = "B" THEN "b" ELSE c]

\* str.lower()
lower(name) == [i \in 1..Len(name) |-> LowerOf[name[i]]]

\* The Solver.name of the solver classes in the model.
SolverNames == {<<"a", "b">>, <<"A", "b">>, <<"B">>, <<"b">>}

\* A submodule of benchmarks/<benchmark>/solvers: importing it gives a
\* Solver class with a name, or raises (the module's own import error, or no
\* Solver attribute in it).
Modules ==
    {[load |-> "ok", name |-> n] : n \in SolverNames}
    \cup {[load |-> "ImportError", name |-> <<>>],
          [load |-> "AttributeError", name |-> <<>>]}

\* What solver_names may be: None, or a set of names.
NoFilter == {<<"None">>}

Filters == {NoFilter} \cup SUBSET {<<"a", "b">>, <<"A", "b">>, <<"b">>, <<"z">>}

\* The loop of get_all_solvers from submodule i on.
RECURSIVE load_from(_, _, _, _)
load_from(solvers, solver_names, i, solver_classes) ==
    IF i > Len(solvers) THEN [exc |-> "none", classes |-> solver_classes]
    ELSE IF solvers[i].load # "ok" THEN [exc |-> solvers[i].load, classes |-> <<>>]
    ELSE LET solver_name == lower(solvers[i].name)
         IN  load_from(solvers, solver_names, i + 1,
                 IF solver_names = NoFilter \/ solver_name \in solver_names
                 THEN Append(solver_classes, solvers[i])
                 ELSE solver_classes)

\* get_all_solvers matching the name as written, not lower-cased
RECURSIVE load_from_asis(_, _, _, _)
load_from_asis(solvers, solver_names, i, solver_classes) ==
    IF i > Len(solvers) THEN [exc |-> "none", classes |-> solver_classes]
    ELSE IF solvers[i].load # "ok" THEN [exc |-> solvers[i].load, classes |-> <<>>]
    ELSE load_from_asis(solvers, solver_names, i + 1,
             IF solver_names = NoFilter \/ solvers[i].name \in solver_names
             THEN Append(solver_classes, solvers[i])
             ELSE solver_classes)

get_all_solvers_asis(solvers, solver_names) ==
    load_from_asis(solvers, solver_names, 1, <<>>)

\* get_all_solvers(benchmark, solver_names), on the submodules that
\* list_solvers(benchmark) found, in scan order
get_all_solvers(solvers, solver_names) == load_from(solvers, solver_names, 1, <<>>)

UnchangedInstall == UNCHANGED <<environ, ALLOW_INSTALL, tmp_files>>

CheckBenchmarks(benchmarks, all_benchmarks) ==
    /\ last.op = "none"
    /\ last' = [op |-> "check_benchmarks", benchmarks |-> benchmarks,
                all_benchmarks |-> all_benchmarks,
                r |-> check_benchmarks(benchmarks, all_benchmarks)]
    /\ UNCHANGED guard
    /\ UnchangedInstall
    /\ UnchangedVenv

GetAllSolvers(solvers, solver_names) ==
    /\ last.op = "none"
    /\ last' = [op |-> "get_all_solvers", solvers |-> solvers,
                solver_names |-> solver_names,
                r |-> get_all_solvers(solvers, solver_names)]
    /\ UNCHANGED guard
    /\ UnchangedInstall
    /\ UnchangedVenv

----------------------------------------------------------------------------
\* safe_import.

\* The exception classes of the model and their base class.
ExcBase ==
    [c \in {"BaseException", "Exception", "KeyboardInterrupt", "ImportError",
            "ModuleNotFoundError", "ValueError", "RuntimeError"} |->
        CASE c = "BaseException" -> "object"
          [] c = "Exception" -> "BaseException"
          [] c = "KeyboardInterrupt" -> "BaseException"
          [] c = "ModuleNotFoundError" -> "ImportError"
          [] OTHER -> "Exception"]

ExcTypes == DOMAIN ExcBase

RECURSIVE issubclass(_, _)
issubclass(c, base) ==
    IF c = base THEN TRUE
    ELSE IF c \notin ExcTypes THEN FALSE
    ELSE issubclass(ExcBase[c], base)

\* __exit__ testing the class itself, not its subclasses
safe_import_exit_exact(self, exc_type) ==
    IF exc_type # None /\ exc_type = "ImportError"
    THEN [self |-> [self EXCEPT !.failed_import = TRUE], silence_error |-> TRUE]
    ELSE [self |-> self, silence_error |-> FALSE]

\* safe_import.__exit__(exc_type, exc_value, traceback)
safe_import_exit(self, exc_type) ==
    IF exc_type # None /\ issubclass(exc_type, "ImportError")
    THEN [self |-> [self EXCEPT !.failed_import = TRUE], silence_error |-> TRUE]
    ELSE [self |-> self, silence_error |-> FALSE]

UnchangedCalls == UNCHANGED <<environ, ALLOW_INSTALL, tmp_files, last>>

\* safe_import()
SafeImportInit ==
    /\ last.op = "none"
    /\ guard.state \in {"none", "exited"}
    /\ guard' = [NewGuard EXCEPT !.state = "init"]
    /\ UnchangedCalls
    /\ UnchangedVenv

\* __enter__: warnings.catch_warnings refuses to be entered twice
SafeImportEnter ==
    /\ last.op = "none"
    /\ guard.state \in {"init", "exited"}
    /\ guard' = IF guard.entered
                THEN [guard EXCEPT !.enter_error = TRUE]
                ELSE [guard EXCEPT !.state = "entered", !.entered = TRUE]
    /\ UnchangedCalls
    /\ UnchangedVenv

\* The enclosed block ends, normally (None) or raising exc_type, and
\* __exit__ runs.
SafeImportExit(exc_type) ==
    LET x == safe_import_exit(guard, exc_type)
    IN  /\ last.op = "none"
        /\ guard.state = "entered"
        /\ guard' = [x.self EXCEPT
                        !.state = "exited",
                        !.raised = exc_type,
                        !.propagated = IF x.silence_error THEN None ELSE exc_type]
        /\ UnchangedCalls
        /\ UnchangedVenv

NextRegistry ==
    \/ Idle /\ \E b \in SeqUpTo(BenchNames, MaxNames), a \in SeqUpTo(BenchNames, MaxNames) :
          CheckBenchmarks(b, a)
    \/ Idle /\ \E ss \in SeqUpTo(Modules, MaxSolvers), f \in Filters : GetAllSolvers(ss, f)
    \/ SafeImportInit
    \/ SafeImportEnter
    \/ Idle /\ \E t \in ExcTypes \cup {None} : SafeImportExit(t)
    \/ Return

SpecRegistry == InitInstall /\ [][NextRegistry]_vars


----------------------------------------------------------------------------
\* Claims on the install entry points and the shell runner, under SpecInstall.

\* The allow-install flag as the module reads it is unset: the variable was
\* missing, or empty, when the module was imported.
FlagUnset == ALLOW_INSTALL \in {PyFalse, Str("")}

\* C1: an install entry point called with env_name=None while the
\* allow-install flag is unset raises the configuration error (ValueError)
\* before anything is run: no transient script is created or left behind and
\* no script is handed to bash, for every package tuple and script name.
C1_GateRaisesBeforeShell ==
    (last.op \in InstallOps /\ last.env = None /\ FlagUnset)
        => /\ last.r.exc = "ValueError"
           /\ last.r.spawned = <<>>
           /\ last.r.created = 0
           /\ last.r.held = 0

\* C1 witness: pip_install_in_env("numpy", "cython") with env_name=None and
\* BENCHO_ALLOW_INSTALL set to the empty string was refused.
C1_Witness ==
    /\ last.op = "pip_install_in_env"
    /\ last.env = None
    /\ Len(last.target) = 2
    /\ ALLOW_INSTALL = Str("")
    /\ last.r.exc = "ValueError"

\* C4 (as claimed): once a call has returned or raised, no transient script
\* file made by the shell runner is left on disk.
C4_NoTransientFileRemains == tmp_files = 0

\* C5: past the policy gate, with the shell run returning a status, an
\* install entry point raises the installation failure (RuntimeError) exactly
\* when the status is non-zero, the error names exactly the packages or the
\* script attempted, the script was handed to bash once, and a zero status
\* returns normally.
C5_FailureIffNonZeroExit ==
    (/\ last.op \in InstallOps
     /\ ~(last.env = None /\ FlagUnset)
     /\ last.o.tmp /\ last.o.write)
        => /\ (last.r.exc = "RuntimeError") <=> (last.o.status # 0)
           /\ (last.o.status # 0) => (last.r.msg = last.target)
           /\ (last.o.status = 0) => (last.r.exc = "none")
           /\ Len(last.r.spawned) = 1
           /\ Range(last.target) \subseteq Range(last.r.spawned[1].args)

\* C5 witness: a pip install of two packages into an environment whose shell
\* was killed by a signal (status 9, exit-code byte 0) raised naming both.
C5_Witness ==
    /\ last.op = "pip_install_in_env"
    /\ last.env \in EnvNames
    /\ last.o.tmp /\ last.o.write /\ last.o.status = 9
    /\ last.r.exc = "RuntimeError"
    /\ last.r.msg = <<"numpy", "cython">>

\* A setting of BENCHO_ALLOW_INSTALL that reads as false.
FalseSetting(v) == v \in {PyFalse, Str(""), Str("False")}

\* C8 (as claimed): the gate fails closed.  ALLOW_INSTALL holds what the
\* variable held at import (False when it was missing); whenever that is a
\* false value an install with env_name=None is refused, whatever the
\* variable holds now: no install script reaches bash.
C8_GateFailsClosed ==
    (last.op \in InstallOps /\ last.env = None /\ FalseSetting(ALLOW_INSTALL))
        => last.r.spawned = <<>>

----------------------------------------------------------------------------
\* Claims on create_venv, under SpecVenv.

\* The step is a create_venv call on name n.
EnsureStep(n) == last.op = "none" /\ last'.op = "create_venv" /\ last'.env = n

\* The step changes nothing on disk and runs nothing.
NoOpStep ==
    /\ venv_dirs' = venv_dirs
    /\ n_venv' = n_venv
    /\ n_boot' = n_boot
    /\ tmp_files' = tmp_files
    /\ boot_failed' = boot_failed
    /\ last'.r.exc = "none"
    /\ last'.r.spawned = <<>>
    /\ last'.r.created = 0

\* C2 (as claimed): for a name called only with recreate=False, at least
\* once, creation (venv.create and the bootstrap) has been performed exactly
\* once.
C2_CreatedExactlyOnce ==
    \A n \in EnvNames :
        (n_recreate[n] = 0 /\ n_ensure[n] >= 1) => (n_venv[n] = 1 /\ n_boot[n] = 1)

\* C2 (amended): a create_venv call performs creation exactly when the
\* directory of the name is absent at the call or recreate is true, and the
\* bootstrap follows exactly when venv.create succeeds; a call with
\* recreate=False that finds the directory is a no-op; no call touches the
\* counts of another name.
C2_CreatesIffAbsentOrRecreate ==
    [][\A n \in EnvNames :
          EnsureStep(n) =>
              /\ (n_venv'[n] = n_venv[n] + 1)
                    <=> (n \notin venv_dirs \/ last'.recreate)
              /\ (n_venv'[n] = n_venv[n])
                    <=> (n \in venv_dirs /\ ~last'.recreate)
              /\ (n_boot'[n] = n_boot[n] + 1)
                    <=> (n_venv'[n] = n_venv[n] + 1 /\ last'.v = "ok")
              /\ (n \in venv_dirs /\ ~last'.recreate) => NoOpStep
              /\ \A m \in EnvNames \ {n} :
                    n_venv'[m] = n_venv[m] /\ n_boot'[m] = n_boot[m]
      ]_vars

\* C2 witness: a name created by its first call with recreate=False, whose
\* second call with recreate=False did nothing.
C2_Witness ==
    \E n \in EnvNames :
        /\ n_ensure[n] = 2 /\ n_recreate[n] = 0
        /\ n_venv[n] = 1 /\ n_boot[n] = 1
        /\ last.op = "create_venv" /\ last.env = n /\ ~last.entered

\* C10: a bootstrap that fails in create_venv propagates to the caller (the
\* installation failure when the shell returned a non-zero status) and leaves
\* the directory on disk; from then on every create_venv of the name without
\* recreate is a no-op, and a bootstrap of the name runs again only in a call
\* with recreate=True.
C10_FailedBootstrapIsNeverRetried ==
    [][\A n \in EnvNames :
          /\ (EnsureStep(n) /\ n_boot'[n] # n_boot[n] /\ last'.r.exc # "none")
                => (n \in boot_failed' /\ n \in venv_dirs')
          /\ (EnsureStep(n) /\ n_boot'[n] # n_boot[n]
                /\ last'.o.tmp /\ last'.o.write /\ last'.o.status # 0)
                => (last'.r.exc = "RuntimeError" /\ last'.r.msg = Baseline)
          /\ (n \in boot_failed) => (n \in venv_dirs /\ n \in venv_dirs')
          /\ (n \in boot_failed /\ EnsureStep(n) /\ ~last'.recreate) => NoOpStep
          /\ (n \in boot_failed /\ n_boot'[n] # n_boot[n])
                => (EnsureStep(n) /\ last'.recreate)
      ]_vars

\* C10 witness: the bootstrap of a name raised, and a later create_venv of it without recreate did nothing.
C10_Witness ==
    \E n \in EnvNames :
        /\ n \in boot_failed /\ n \in venv_dirs
        /\ n_boot[n] = 1 /\ n_ensure[n] = 2
        /\ last.op = "create_venv" /\ last.env = n
        /\ ~last.recreate /\ ~last.entered /\ last.r.exc = "none"

----------------------------------------------------------------------------
\* Claims on install_solvers, under SpecSolvers.

\* The shell runs of solvers 1..k all got their script written.
AllWritten(os, k) == \A j \in 1..(2 * k) : os[j].tmp /\ os[j].write

----------------------------------------------------------------------------
\* Claims on the registry and on safe_import, under SpecRegistry.

\* C3: a safe_import scope that has been left ended in one of three ways.
\* The block completed: failed_import is false and nothing is raised.  The
\* block raised ImportError or a subclass of it: failed_import is true and
\* nothing propagates.  The block raised anything else: that error propagates
\* and failed_import is false.
C3_ScopeOutcomes ==
    (guard.state = "exited") =>
        LET importish == {"ImportError", "ModuleNotFoundError"}
        IN  /\ (guard.raised = None)
                  => (~guard.failed_import /\ guard.propagated = None)
            /\ (guard.raised \in importish)
                  => (guard.failed_import /\ guard.propagated = None)
            /\ (guard.raised \notin importish \cup {None})
                  => (~guard.failed_import /\ guard.propagated = guard.raised)

\* C3 witness: a scope whose block raised ModuleNotFoundError, a subclass of
\* ImportError, was left with the flag set and nothing propagating.
C3_Witness ==
    /\ guard.state = "exited"
    /\ guard.raised = "ModuleNotFoundError"
    /\ guard.failed_import
    /\ guard.propagated = None

\* The discovered solvers a filter lets through.
Matches(m, solver_names) ==
    solver_names = NoFilter \/ [i \in 1..Len(m.name) |-> LowerOf[m.name[i]]] \in solver_names

C7_ReportsEveryUnknownName ==
    (last.op = "check_benchmarks") =>
        LET req == last.benchmarks
            missing == {i \in 1..Len(req) :
                          \A j \in 1..Len(last.all_benchmarks) :
                              last.all_benchmarks[j] # req[i]}
        IN  /\ (last.r.exc = "AssertionError") <=> (missing # {})
            /\ (missing = {}) => (last.r.exc = "none")
            /\ (missing # {}) => (last.r.unknown = {req[i] : i \in missing})

\* C7 witness: two different unknown names were requested and the error
\* lists both.
C7_Witness ==
    /\ last.op = "check_benchmarks"
    /\ last.r.exc = "AssertionError"
    /\ Len(last.benchmarks) = 2
    /\ last.benchmarks[1] # last.benchmarks[2]
    /\ last.r.unknown = {last.benchmarks[1], last.benchmarks[2]}

====
